---- MODULE Spec2Model ----
(***************************************************************************)
(* One-shot channel of one_shot_channel/src/lib.rs: a Channel<T> holding a *)
(* MaybeUninit<T> slot and an AtomicBool, split into a Sender and a         *)
(* Receiver that are each consumed by their single operation.  The model   *)
(* follows the code statement by statement: every atomic access, the slot   *)
(* write, the slot read, park and unpark are separate steps, so that every  *)
(* interleaving of the sender's thread and the receiver's thread is         *)
(* explored.  The park token of std::thread is modelled per thread.         *)
(***************************************************************************)
EXTENDS Naturals, FiniteSets

\* ---------------------------------------------------------------- bounds
MaxRounds == 2          \* number of split() calls explored on one channel
NumValues == 2          \* number of distinct values of T

Values  == 1..NumValues
Threads == {"A", "B"}
Uninit  == 0            \* MaybeUninit::uninit(): the slot holds no valid T
None    == Uninit       \* "no value of T" in results and records
Rounds  == 0..MaxRounds

VARIABLES
    message,          \* Channel.message : the slot (Uninit or a value)
    ready,            \* Channel.ready   : the AtomicBool
    alive,            \* the Channel object has not been dropped
    round,            \* number of split() calls so far
    spc,              \* Sender: "none" | "live" | "written" | "stored" | "done" | "dropped"
    rpc,              \* Receiver: "none" | "live" | "topark" | "parked" | "loop" | "read" | "done" | "dropped"
    sthread,          \* thread the Sender handle is used on
    receiving_thread, \* Sender.receiving_thread = thread::current() at split
    rthread,          \* thread the Receiver handle lives on (it is !Send)
    token,            \* park token of every thread (std::thread park/unpark)
    visible,          \* the slot write happens-before the receiver's current step
    result,           \* value returned by receive() (None before it returns)
    probe,            \* last value returned by is_ready(): "none" | "true" | "false"
    wake,             \* why park() last returned in this receive(): "none" | "token" | "unpark" | "spurious"
    sent,             \* per round: the argument of send (None if not called)
    taken,            \* per round: times receive() took ownership of the value
    finalized         \* per round: times the value's destructor was run by Channel

vars == <<message, ready, alive, round, spc, rpc, sthread, receiving_thread, rthread,
          token, visible, result, probe, wake, sent, taken,
          finalized>>

\* ------------------------------------------------------- memory orderings
\* Orderings used by the code (lib.rs:55, 62, 65).
StoreOrdering == "Release"
LoadOrdering == "Relaxed"
SwapOrdering_relaxed == "Relaxed"
SwapOrdering == "Acquire"

\* A store synchronizes-with a load that reads it iff the store is a release
\* and the load an acquire.
Synchronizes(st, ld) == st = "Release" /\ ld = "Acquire"

\* --------------------------------------------------------------- threads
\* Handles with no call in progress / a call in progress.
SenderGone   == spc \in {"none", "done", "dropped"}
ReceiverGone == rpc \in {"none", "done", "dropped"}
InSend       == spc \in {"written", "stored"}
InReceive    == rpc \in {"topark", "parked", "loop", "read"}
SameThread   == sthread = rthread

\* A thread runs one call at a time: when both handles are on one thread, a
\* call on one handle starts only when no call on the other is in progress.
SenderThreadFree   == ~(SameThread /\ InReceive)
ReceiverThreadFree == ~(SameThread /\ InSend)

\* ------------------------------------------------------------ Channel::new
\* lib.rs:30-35: an uninitialized slot and a cleared flag.
new == [message |-> Uninit, ready |-> FALSE]

\* State after construction of the channel, before any split.
Init ==
    /\ message = new.message
    /\ ready = new.ready
    /\ alive = TRUE
    /\ round = 0
    /\ spc = "none"
    /\ rpc = "none"
    /\ sthread = "A"
    /\ receiving_thread = "A"
    /\ rthread = "A"
    /\ token = [t \in Threads |-> FALSE]
    /\ visible = FALSE
    /\ result = None
    /\ probe = "none"
    /\ wake = "none"
    /\ sent = [r \in Rounds |-> None]
    /\ taken = [r \in Rounds |-> 0]
    /\ finalized = [r \in Rounds |-> 0]

\* ------------------------------------------------------- Drop for Channel
\* drop(): assume_init_drop() on the slot iff ready is set.  Returns the
\* destructor counts after the drop.
drop_always(rdy, r, fin) == [fin EXCEPT ![r] = @ + 1]
drop_never(rdy, r, fin) == fin
drop(rdy, r, fin) == IF rdy THEN [fin EXCEPT ![r] = @ + 1] ELSE fin

\* The owning scope ends.  Both handles borrow the channel, so none is left.
Teardown ==
    /\ alive
    /\ SenderGone /\ ReceiverGone
    /\ alive' = FALSE
    /\ finalized' = drop(ready, round, finalized)
    /\ UNCHANGED <<message, ready, round, spc, rpc, sthread, receiving_thread, rthread,
                   token, visible, result, probe, wake, sent,
                   taken>>

\* ---------------------------------------------------------- Channel::split
\* lib.rs:38  *self = Self::new(): the channel value stored by split.
reset_missing == [message |-> message, ready |-> ready]
reset_keepflag == [message |-> Uninit, ready |-> ready]
reset == new

\* *self = Self::new() drops the old channel value (running Drop) and stores
\* a fresh one; the Sender records thread::current(); the Receiver stays on
\* that thread (PhantomData<*const ()> makes it !Send), the Sender may move.
\* split takes &mut self and both handles borrow the channel for their whole
\* life (lib.rs:37), so split runs only when no handle of the last split is
\* left.
Split_unborrowed(cur, st) ==
    /\ alive
    /\ round < MaxRounds
    /\ finalized' = drop(ready, round, finalized)
    /\ message' = reset.message
    /\ ready' = reset.ready
    /\ round' = round + 1
    /\ spc' = "live"
    /\ rpc' = "live"
    /\ receiving_thread' = cur
    /\ rthread' = cur
    /\ sthread' = st
    /\ visible' = FALSE
    /\ result' = None
    /\ probe' = "none"
    /\ wake' = "none"
    /\ UNCHANGED <<alive, token, sent, taken>>
Split_moved(cur, st) ==
    /\ alive
    /\ SenderGone /\ ReceiverGone
    /\ round < MaxRounds
    /\ finalized' = drop(ready, round, finalized)
    /\ message' = reset.message
    /\ ready' = reset.ready
    /\ round' = round + 1
    /\ spc' = "live"
    /\ rpc' = "live"
    /\ receiving_thread' = cur
    /\ rthread' = st
    /\ sthread' = st
    /\ visible' = FALSE
    /\ result' = None
    /\ probe' = "none"
    /\ wake' = "none"
    /\ UNCHANGED <<alive, token, sent, taken>>
Split_forget(cur, st) ==
    /\ alive
    /\ SenderGone /\ ReceiverGone
    /\ round < MaxRounds
    /\ finalized' = finalized
    /\ message' = reset.message
    /\ ready' = reset.ready
    /\ round' = round + 1
    /\ spc' = "live"
    /\ rpc' = "live"
    /\ receiving_thread' = cur
    /\ rthread' = cur
    /\ sthread' = st
    /\ visible' = FALSE
    /\ result' = None
    /\ probe' = "none"
    /\ wake' = "none"
    /\ UNCHANGED <<alive, token, sent, taken>>
Split(cur, st) ==
    /\ alive
    /\ SenderGone /\ ReceiverGone
    /\ round < MaxRounds
    /\ finalized' = drop(ready, round, finalized)
    /\ message' = reset.message
    /\ ready' = reset.ready
    /\ round' = round + 1
    /\ spc' = "live"
    /\ rpc' = "live"
    /\ receiving_thread' = cur
    /\ rthread' = cur
    /\ sthread' = st
    /\ visible' = FALSE
    /\ result' = None
    /\ probe' = "none"
    /\ wake' = "none"
    /\ UNCHANGED <<alive, token, sent, taken>>

\* ------------------------------------------------------------ Sender::send
\* lib.rs:54  (*self.channel.message.get()).write(message)
SendWrite_publishes(v) ==
    /\ spc = "live"
    /\ SenderThreadFree
    /\ message' = v
    /\ ready' = TRUE
    /\ sent' = [sent EXCEPT ![round] = v]
    /\ spc' = "written"
    /\ UNCHANGED <<alive, round, rpc, sthread, receiving_thread, rthread, token,
                   visible, result, probe, wake, taken,
                   finalized>>
SendWrite(v) ==
    /\ spc = "live"
    /\ SenderThreadFree
    /\ message' = v
    /\ sent' = [sent EXCEPT ![round] = v]
    /\ spc' = "written"
    /\ UNCHANGED <<ready, alive, round, rpc, sthread, receiving_thread, rthread, token,
                   visible, result, probe, wake, taken,
                   finalized>>

\* lib.rs:55  self.channel.ready.store(true, Release)
SendStore ==
    /\ spc = "written"
    /\ ready' = TRUE
    /\ spc' = "stored"
    /\ UNCHANGED <<message, alive, round, rpc, sthread, receiving_thread, rthread,
                   token, visible, result, probe, wake, sent, taken,
                   finalized>>

\* Thread::unpark: sets the target's token; a parked target then returns
\* from park (ParkWake).  The token is a flag, not a counter.
unpark_ifparked(tok, t) == IF rpc = "parked" THEN [tok EXCEPT ![t] = TRUE] ELSE tok
unpark(tok, t) == [tok EXCEPT ![t] = TRUE]

\* lib.rs:56  self.receiving_thread.unpark()
SendUnpark_waits ==
    /\ spc = "stored"
    /\ rpc = "parked"
    /\ token' = unpark(token, receiving_thread)
    /\ spc' = "done"
    /\ UNCHANGED <<message, ready, alive, round, rpc, sthread,
                   receiving_thread, rthread, visible, result, probe,
                   wake, sent, taken, finalized>>
SendUnpark ==
    /\ spc = "stored"
    /\ token' = unpark(token, receiving_thread)
    /\ spc' = "done"
    /\ UNCHANGED <<message, ready, alive, round, rpc, sthread,
                   receiving_thread, rthread, visible, result, probe,
                   wake, sent, taken, finalized>>

\* The Sender is dropped without send being called (it has no Drop impl).
SenderDrop ==
    /\ spc = "live"
    /\ SenderThreadFree
    /\ spc' = "dropped"
    /\ UNCHANGED <<message, ready, alive, round, rpc, sthread,
                   receiving_thread, rthread, token, visible, result, probe,
                   wake, sent, taken, finalized>>

\* ------------------------------------------------------ Receiver::is_ready
\* lib.rs:62  self.channel.ready.load(Relaxed); callable while the handle is
\* live, i.e. before receive(self) consumes it.
\* The value the load returns in the current state.
is_ready == ready

BoolStr(b) == IF b THEN "true" ELSE "false"

IsReady_swap ==
    /\ rpc = "live"
    /\ ReceiverThreadFree
    /\ probe' = BoolStr(is_ready)
    /\ ready' = FALSE
    /\ UNCHANGED <<message, alive, round, spc, rpc, sthread, receiving_thread, rthread,
                   token, visible, result, wake, sent, taken, finalized>>
IsReady ==
    /\ rpc = "live"
    /\ ReceiverThreadFree
    /\ probe' = BoolStr(is_ready)
    /\ UNCHANGED <<message, ready, alive, round, spc, rpc, sthread,
                   receiving_thread, rthread, token, visible, result, wake, sent,
                   taken, finalized>>

\* ------------------------------------------------------- Receiver::receive
\* pc after park() returns: back to the loop condition (lib.rs:65).
AfterPark_trust == "read"
AfterPark == "loop"

\* The value swap(false, Acquire) leaves in the flag.
swap_value_keep == ready
swap_value == FALSE

\* lib.rs:65  while !self.channel.ready.swap(false, Acquire)
\* The first execution is the call of receive; later ones follow a park.
\* A swap that reads the sender's store acquires the slot write.
ReceiveSwap_parkfirst ==
    /\ rpc \in {"live", "loop"}
    /\ rpc = "live" => ReceiverThreadFree
    /\ IF rpc = "loop" /\ ready
          THEN /\ rpc' = "read"
               /\ ready' = swap_value
               /\ visible' = (SameThread \/ Synchronizes(StoreOrdering, SwapOrdering))
          ELSE /\ rpc' = "topark"
               /\ ready' = (IF rpc = "loop" THEN swap_value ELSE ready)
               /\ UNCHANGED visible
    /\ UNCHANGED <<message, alive, round, spc, sthread, receiving_thread, rthread,
                   token, result, probe, wake, sent, taken, finalized>>
ReceiveSwap ==
    /\ rpc \in {"live", "loop"}
    /\ rpc = "live" => ReceiverThreadFree
    /\ ready' = swap_value
    /\ IF ready
          THEN /\ rpc' = "read"
               /\ visible' = (SameThread \/ Synchronizes(StoreOrdering, SwapOrdering))
          ELSE /\ rpc' = "topark"
               /\ UNCHANGED visible
    /\ UNCHANGED <<message, alive, round, spc, sthread, receiving_thread, rthread,
                   token, result, probe, wake, sent, taken, finalized>>

\* lib.rs:66  thread::park() is called: it returns at once, consuming the
\* token, if the token is set; otherwise the thread blocks.
ParkEnter ==
    /\ rpc = "topark"
    /\ IF token[rthread]
          THEN /\ token' = [token EXCEPT ![rthread] = FALSE]
               /\ wake' = "token"
               /\ rpc' = AfterPark
          ELSE /\ rpc' = "parked"
               /\ UNCHANGED <<token, wake>>
    /\ UNCHANGED <<message, ready, alive, round, spc, sthread,
                   receiving_thread, rthread, visible, result, probe, sent, taken,
                   finalized>>

\* The blocked thread is woken by an unpark: park consumes the token.
ParkWake ==
    /\ rpc = "parked"
    /\ token[rthread]
    /\ token' = [token EXCEPT ![rthread] = FALSE]
    /\ wake' = "unpark"
    /\ rpc' = AfterPark
    /\ UNCHANGED <<message, ready, alive, round, spc, sthread,
                   receiving_thread, rthread, visible, result, probe, sent, taken,
                   finalized>>

\* park() may return spuriously, without any unpark.
ParkSpurious ==
    /\ rpc = "parked"
    /\ ~token[rthread]
    /\ wake' = "spurious"
    /\ rpc' = AfterPark
    /\ UNCHANGED <<message, ready, alive, round, spc, sthread,
                   receiving_thread, rthread, token, visible, result, probe, sent,
                   taken, finalized>>

\* Outcomes of assume_init_read: the slot's value when the write
\* happens-before the read; otherwise the read races with the write (or reads
\* uninitialized storage) and any outcome is possible.
assume_init_read(msg, vis) ==
    IF vis /\ msg # Uninit THEN {msg} ELSE Values \cup {Uninit}

\* lib.rs:68  (*self.channel.message.get()).assume_init_read()
ReceiveRead ==
    /\ rpc = "read"
    /\ result' \in assume_init_read(message, visible)
    /\ taken' = [taken EXCEPT ![round] = @ + 1]
    /\ rpc' = "done"
    /\ UNCHANGED <<message, ready, alive, round, spc, sthread,
                   receiving_thread, rthread, token, visible, probe, wake, sent,
                   finalized>>

\* The Receiver is dropped without receive being called (no Drop impl).
ReceiverDrop ==
    /\ rpc = "live"
    /\ ReceiverThreadFree
    /\ rpc' = "dropped"
    /\ UNCHANGED <<message, ready, alive, round, spc, sthread,
                   receiving_thread, rthread, token, visible, result, probe, wake,
                   sent, taken, finalized>>

\* ------------------------------------------------------------ specification
SenderStep == SendStore \/ SendUnpark

ReceiverStep ==
    \/ (rpc = "loop" /\ ReceiveSwap)
    \/ ParkEnter
    \/ ParkWake
    \/ ReceiveRead

Next ==
    \/ \E cur \in Threads, st \in Threads : Split(cur, st)
    \/ \E v \in Values : SendWrite(v)
    \/ SendStore
    \/ SendUnpark
    \/ SenderDrop
    \/ IsReady
    \/ ReceiveSwap
    \/ ParkEnter
    \/ ParkWake
    \/ ParkSpurious
    \/ ReceiveRead
    \/ ReceiverDrop
    \/ Teardown

Spec == Init /\ [][Next]_vars

\* Both threads are scheduled fairly: a call that was started keeps taking
\* its steps.  Starting a call, dropping a handle, splitting again and a
\* spurious return of park are never forced.
LiveSpec == Spec /\ WF_vars(SenderStep) /\ WF_vars(ReceiverStep)

\* ==================================================================== claims
\* A send has been called in the current round (its slot write was made).
SendCalled == spc \in {"written", "stored", "done"}
\* The sender's store of ready = true has been made in the current round.
SendPublished == spc \in {"stored", "done"}

\* C1: whenever receive() has returned, the value it returned is exactly the
\* value passed to the send of the same split, on whichever threads and in
\* whichever interleaving the two calls ran.
C1_ReceiveReturnsSent ==
    rpc = "done" => (result \in Values /\ result = sent[round])

\* C1 witness: a receive on a thread other than the sender's returned the
\* last value of T after having been woken from park by the send.
C1_Witness ==
    /\ rpc = "done"
    /\ ~SameThread
    /\ wake = "unpark"
    /\ sent[round] = NumValues
    /\ result = NumValues

\* C2: receive() reaches its slot read, and returns, only after the send of
\* the same split stored ready = true, and then the sender's slot write
\* happens-before the receiver; in particular no spurious or stale wake makes
\* it return, and with no send it never returns.
C2_NoReturnBeforeSend ==
    rpc \in {"read", "done"} => (SendPublished /\ visible /\ sent[round] # None)

\* C2 witness: receive returned although park had returned spuriously.
C2_Witness ==
    /\ rpc = "done"
    /\ wake = "spurious"
    /\ spc = "done"

\* C3: under fair scheduling of both threads, once send has been called and
\* receive is in progress, receive eventually returns.
C3_NoMissedWakeup ==
    (InReceive /\ SendCalled) ~> (rpc = "done")

\* C3 witness: in the first round (no wake left from an earlier round) the
\* unpark came after the receiver's failed check and before its park, and
\* receive returned.
C3_Witness ==
    /\ round = 1
    /\ rpc = "done"
    /\ wake = "token"
    /\ ~SameThread

\* C4: the slot is read only when written and not yet read.  (a) At the read
\* of receive the slot holds this round's value, written before and visible,
\* not yet taken nor finalized, and the sender's write is behind it; (b) the
\* channel's drop reads the slot only under ready, and ready implies the same;
\* (c) the slot write and the slot read are never both enabled; (d) the read
\* is entered only by a swap that returned true.
C4_SlotReadOnlyWhenWritten ==
    /\ [](rpc = "read" =>
            /\ message # Uninit /\ message = sent[round] /\ visible
            /\ SendPublished
            /\ taken[round] = 0 /\ finalized[round] = 0)
    /\ []((alive /\ ready) =>
            /\ message # Uninit /\ message = sent[round]
            /\ SendPublished
            /\ taken[round] = 0 /\ finalized[round] = 0)
    /\ [](~((\E v \in Values : ENABLED SendWrite(v)) /\ ENABLED ReceiveRead))
    /\ [][(rpc # "read" /\ rpc' = "read") => (ready /\ ~ready')]_vars

\* C4 witness: the receiver is at its slot read while the sender is still
\* inside send (between its store and its unpark).
C4_Witness ==
    /\ rpc = "read"
    /\ spc = "stored"
    /\ message # Uninit

\* C5: every value passed to send is disposed of at most once at any time,
\* and exactly once as soon as its round is over (re-split) or the channel is
\* torn down: taken by receive or finalized by the channel, never both.
C5_DisposedExactlyOnce ==
    \A r \in 1..round :
        sent[r] # None =>
            /\ taken[r] + finalized[r] <= 1
            /\ (r < round \/ ~alive) => taken[r] + finalized[r] = 1

\* C5 witness: after teardown, one round's value was taken by receive and
\* another round's value was finalized by the channel.
C5_Witness ==
    /\ ~alive
    /\ round = 2
    /\ sent[1] # None /\ sent[2] # None
    /\ taken[1] = 1 /\ finalized[1] = 0
    /\ taken[2] = 0 /\ finalized[2] = 1

\* C6: after teardown, the finalizer of the last round's value was run once
\* if ready was true at teardown and not at all if it was false; ready is
\* true at teardown exactly when send completed and receive never took the
\* value.
C6_TeardownFinalizes ==
    ~alive =>
        /\ finalized[round] = (IF ready THEN 1 ELSE 0)
        /\ ready <=> (sent[round] # None /\ taken[round] = 0)

\* C6 witness: teardown with ready true (sent, receiver dropped unused).
C6_Witness ==
    /\ ~alive
    /\ ready
    /\ rpc = "dropped"
    /\ finalized[round] = 1

\* C7: when send has completed and the receiver has called nothing yet,
\* is_ready() returns true, and the first flag check of receive() goes
\* straight to the slot read (park is never called) and receive returns v.
C7_SendFirstNoPark ==
    /\ []((spc = "done" /\ rpc = "live") => is_ready)
    /\ [][(spc = "done" /\ rpc = "live" /\ rpc' \notin {"live", "dropped"}) =>
            (rpc' = "read" /\ wake' = "none" /\ message' = sent[round])]_vars
    /\ [][(rpc = "read" /\ wake = "none" /\ rpc' # "read") =>
            (rpc' = "done" /\ result' = sent[round] /\ wake' = "none")]_vars

\* C7 witness: send ran on the receiver's own thread before is_ready and
\* receive; is_ready returned true and receive returned v without parking.
C7_Witness ==
    /\ SameThread
    /\ rpc = "done"
    /\ probe = "true"
    /\ wake = "none"
    /\ result = sent[round]
    /\ result # None

\* C8: in every state in which is_ready() can be called (the Receiver is
\* live), it returns false if the send of this split has not stored the flag
\* and true if it has.
C8_IsReadyTracksSend ==
    rpc = "live" => (is_ready <=> SendPublished)

\* C8 witness: in a second round on a channel whose first value was never
\* received, is_ready was called before the send and returned false.
C8_Witness ==
    /\ round = 2
    /\ finalized[1] = 1
    /\ rpc = "live"
    /\ spc = "written"
    /\ probe = "false"

\* C9: an is_ready() step changes nothing but the value it returns; within a
\* round the flag goes from true to false only by receive's swap; a receive
\* that follows is_ready calls returns the sent value.
C9_IsReadyPure ==
    /\ [][IsReady => UNCHANGED <<message, ready, alive, round, spc, rpc,
                                 sthread, receiving_thread, rthread, token, visible,
                                 result, wake, sent, taken, finalized>>]_vars
    /\ [][(ready /\ ~ready' /\ round' = round) =>
            (rpc \in {"live", "loop"} /\ rpc' = "read")]_vars
    /\ []((rpc = "done" /\ probe # "none") => result = sent[round])

\* C9 witness: is_ready returned true and the receive after it returned the
\* sent value.
C9_Witness ==
    /\ rpc = "done"
    /\ probe = "true"
    /\ ~SameThread
    /\ result = sent[round]
    /\ result # None

\* C10: send never waits: whenever the Sender is live and its thread is not
\* inside another call, the slot write is enabled for every value; after it
\* the flag store is enabled, and after that the unpark, whatever the
\* receiver is doing.
C10_SendNeverBlocks ==
    /\ (spc = "live" /\ SenderThreadFree) => \A v \in Values : ENABLED SendWrite(v)
    /\ spc = "written" => ENABLED SendStore
    /\ spc = "stored" => ENABLED SendUnpark

\* C10 witness: send completed while the receiver never called receive.
C10_Witness ==
    /\ spc = "done"
    /\ rpc = "dropped"
    /\ ready

\* State of the channel within a split, from the receiver's side: Consumed
\* once receive's swap took the flag, else Ready if the flag is set, else
\* Empty.
ChannelState ==
    IF rpc \in {"read", "done"} THEN "Consumed"
    ELSE IF ready THEN "Ready" ELSE "Empty"

\* Transitions of ChannelState allowed within one split.
AllowedTransitions ==
    {<<"Empty", "Empty">>, <<"Empty", "Ready">>, <<"Ready", "Ready">>,
     <<"Ready", "Consumed">>, <<"Consumed", "Consumed">>}

\* C11 (amended): within a split the channel state only moves
\* Empty -> Ready -> Consumed; ready goes from false to true at most once,
\* only by send's store and only from Empty; it goes from true to false at
\* most once, only by receive's swap; Consumed is not left before the next
\* split and the flag stays clear in it.
C11_StateMachine ==
    /\ [][round' = round =>
            <<ChannelState, ChannelState'>> \in AllowedTransitions]_vars
    /\ [][(round' = round /\ ~ready /\ ready') =>
            (ChannelState = "Empty" /\ spc = "written" /\ spc' = "stored")]_vars
    /\ [][(round' = round /\ ready /\ ~ready') =>
            (rpc \in {"live", "loop"} /\ rpc' = "read")]_vars
    /\ [](ChannelState = "Consumed" => ~ready)

\* C11 witness: a split went through Empty, Ready and Consumed.
C11_Witness ==
    /\ ChannelState = "Consumed"
    /\ spc = "done"
    /\ rpc = "done"
    /\ sent[round] # None

\* C11 as stated: the same, with ready set exactly once in every split, so
\* that every split that is over (re-split or teardown) had its send.
C11_Original ==
    /\ C11_StateMachine
    /\ [](\A r \in 1..round : (r < round \/ ~alive) => sent[r] # None)

\* The slot's storage holds a fully written value of T.
SlotHoldsValue == message # Uninit

\* C12 (amended): on a live channel, the slot holds a value exactly when
\* send's slot write of this split has been made; ready has been true in
\* this split exactly when send's store has been made, and then the slot
\* holds the value sent.  (Between the write and the store the slot holds a
\* value although ready has never been true.)
C12_SlotValidity ==
    /\ [](alive => (SlotHoldsValue <=> SendCalled))
    /\ []((alive /\ SendPublished) => (SlotHoldsValue /\ message = sent[round]))
    /\ [](ready => SendPublished)
    /\ [][(~SendPublished /\ SendPublished') => (~ready /\ ready')]_vars

\* C12 witness: the state between send's slot write and its flag store.
C12_Witness ==
    /\ alive
    /\ spc = "written"
    /\ SlotHoldsValue
    /\ message = sent[round]
    /\ ~ready

\* C12 as stated: the slot holds a value iff ready is or was true in this
\* split (ready was true at some time iff send's store has been made).
C12_Original ==
    alive => (SlotHoldsValue <=> SendPublished)

\* C13: every split step, from whatever state, leaves the slot holding no
\* value and the flag clear, and issues one live Sender and one live
\* Receiver for the new round.
C13_SplitResets ==
    [][round' # round =>
         /\ round' = round + 1
         /\ message' = Uninit
         /\ ~ready'
         /\ spc' = "live"
         /\ rpc' = "live"]_vars

\* C13 witness: the channel right after a re-split that followed a round
\* whose value was sent but never received.
C13_Witness ==
    /\ round = 2
    /\ sent[1] # None /\ taken[1] = 0
    /\ spc = "live" /\ rpc = "live"
    /\ probe = "none"
    /\ message = Uninit
    /\ ~ready

\* C14: a split step is taken only when no handle of the previous split is
\* left; a live Sender or Receiver comes into being only by a split step;
\* the argument of a round's send is recorded once and never replaced (no
\* second send) and a round's value is taken at most once (no second
\* receive).
C14_OneHandleEach ==
    /\ [][round' # round => (SenderGone /\ ReceiverGone)]_vars
    /\ [][(spc' = "live" /\ spc # "live") => round' = round + 1]_vars
    /\ [][(rpc' = "live" /\ rpc # "live") => round' = round + 1]_vars
    /\ [][\A r \in Rounds : sent[r] # None => sent'[r] = sent[r]]_vars
    /\ [](\A r \in Rounds : taken[r] <= 1)

\* C14 witness: a second split was made after both handles of the first
\* were consumed by their send and receive.
C14_Witness ==
    /\ round = 2
    /\ sent[1] # None /\ taken[1] = 1
    /\ spc = "written"
    /\ rpc = "live"

\* C15: as long as handles of a split exist, the thread recorded in the
\* Sender is the thread the Receiver lives on; neither changes within a
\* split; and every wake (a park token being set) is issued to the
\* Receiver's thread.
C15_WakeTargetsReceiver ==
    /\ [](rpc # "none" => receiving_thread = rthread)
    /\ [][round' = round =>
            (rthread' = rthread /\ receiving_thread' = receiving_thread)]_vars
    /\ [][\A t \in Threads : (~token[t] /\ token'[t]) => t = rthread]_vars

\* C15 witness: the sender, on another thread, has issued its wake while the
\* receiver is parked, and the token is on the receiver's thread.
C15_Witness ==
    /\ spc = "done"
    /\ rpc = "parked"
    /\ sthread # rthread
    /\ token[rthread]
    /\ \A t \in Threads \ {rthread} : ~token[t]

\* Steps of the Sender within a split, in program order.
SenderOrder ==
    {<<"live", "written">>, <<"written", "stored">>, <<"stored", "done">>,
     <<"live", "dropped">>}

\* C16 (amended): send takes its steps in the order slot write, flag store,
\* wake, and each step touches only its own object.  Until the store the
\* receiver observes nothing: is_ready is false and a swap of receive fails.
\* A wake is issued only after the flag store: at the wake the flag is set
\* unless the receiver has already taken it.  A receiver still waiting when
\* the send of its split has completed finds the flag set at its next check.
C16_SendOrder ==
    /\ [][(round' = round /\ spc' # spc) => <<spc, spc'>> \in SenderOrder]_vars
    /\ [][(spc = "live" /\ spc' = "written") =>
            (message' = sent'[round] /\ UNCHANGED <<ready, token>>)]_vars
    /\ [][(spc = "written" /\ spc' = "stored") =>
            (ready' /\ UNCHANGED <<message, token>>)]_vars
    /\ [][(spc = "stored" /\ spc' = "done") =>
            (token'[rthread] /\ UNCHANGED <<message, ready>>)]_vars
    /\ [](spc \in {"live", "written"} => ~is_ready)
    /\ [][(spc \in {"live", "written"} /\ rpc \in {"live", "loop"}
           /\ rpc' \notin {rpc, "dropped"}) => rpc' = "topark"]_vars
    /\ [][(\E t \in Threads : ~token[t] /\ token'[t]) => spc = "stored"]_vars
    /\ [](spc = "stored" => (ready \/ rpc \in {"read", "done"}))
    /\ []((spc = "done" /\ rpc \in {"topark", "parked", "loop"}) => ready)

\* C16 witness: a receiver that was parked has been woken by the send of its
\* split and stands before its next check with the flag set.
C16_Witness ==
    /\ round = 1
    /\ spc = "done"
    /\ rpc = "loop"
    /\ wake = "unpark"
    /\ ready

\* C16 as stated: the same, with the flag true in the state in which the
\* wake is issued.
C16_Original ==
    /\ C16_SendOrder
    /\ [][(spc = "stored" /\ spc' = "done") => ready]_vars

\* C17: once a round is over by a re-split, its value's finalizer has been
\* run by the channel exactly once if the value was sent and never received
\* and not at all otherwise (nothing sent, or the value was taken); no later
\* step, the teardown included, changes the count of an earlier round.
C17_ResplitFinalizesOnce ==
    /\ [](\A r \in 0..round :
            r < round =>
                finalized[r] = (IF sent[r] # None /\ taken[r] = 0 THEN 1 ELSE 0))
    /\ [][\A r \in 0..round : r < round => finalized'[r] = finalized[r]]_vars

\* C17 witness: the channel was torn down after a re-split that followed a
\* sent-but-unreceived round; that round's value was finalized once.
C17_Witness ==
    /\ ~alive
    /\ round = 2
    /\ sent[1] # None
    /\ taken[1] = 0
    /\ finalized[1] = 1

\* park last returned by consuming a token although the send of this split
\* has not issued its wake: the token was left by the send of an earlier
\* round on the same thread.
StaleWake == wake \in {"token", "unpark"} /\ spc # "done"

\* C18: in every round, a park that returned on a wake left over from an
\* earlier round only leads back to the flag check; receive is at its read
\* or has returned only after this round's send stored the flag, and what it
\* returns is this round's value.
C18_RoundsIndependent ==
    /\ (StaleWake /\ ~SendPublished) => rpc \in {"topark", "parked", "loop"}
    /\ (round >= 1 /\ rpc \in {"read", "done"}) =>
            (SendPublished /\ visible /\ message = sent[round])
    /\ (round >= 1 /\ rpc = "done") =>
            (result = sent[round] /\ result \in Values /\ taken[round] = 1)

\* C18 witness: in the second round on the same receiver thread, park
\* returned on the wake left by the first round's send (this round's send has
\* not issued its wake yet), and receive returned the second round's value,
\* which differs from the first round's.
C18_Witness ==
    /\ round = 2
    /\ taken[1] = 1
    /\ wake = "token"
    /\ spc = "stored"
    /\ rpc = "done"
    /\ result = sent[2]
    /\ sent[1] # sent[2]

====
